---- MODULE Spec2Model ----
(***************************************************************************)
(* A model of the Grain-128 stream cipher engine of src/src/lib.rs:        *)
(* struct Grain128 with its two 128-cell registers, keysetup, ivsetup,     *)
(* the private bit step keystream(), and the byte-level keystream_bytes,   *)
(* encrypt_bytes and decrypt_bytes.                                        *)
(*                                                                         *)
(* A register is a sequence of 128 cells; cell i of the source (0-based)   *)
(* is element i+1 of the sequence, written R[i+1] throughout.  Bytes are   *)
(* integers in 0..255.  Every cell the source writes holds 0 or 1 (it      *)
(* writes (x >> j) & 1, the constant 1, and XORs and ANDs of cells), and   *)
(* on such values ^ is addition modulo 2 and & is multiplication.          *)
(***************************************************************************)
EXTENDS Integers, Sequences, FiniteSets, TLC

(***************************************************************************)
(* Program constants.                                                      *)
(***************************************************************************)
\* [u8; 128]: the length of LFSR and NFSR.
RegLen == 128
\* [u8; 16]: the length of the stored key.
KeyBytes == 16
\* for _ in 0..256: the initial clockings of ivsetup.
WarmUpClocks == 256
\* for j in 0..8: the bits of a byte.
ByteBits == 8
\* [0u8; 16]: the buffer length of the tests.
TestLen == 16

(***************************************************************************)
(* u8 arithmetic.                                                          *)
(***************************************************************************)
Pow2(j) == CASE j = 0 -> 1 [] j = 1 -> 2 [] j = 2 -> 4 [] j = 3 -> 8
             [] j = 4 -> 16 [] j = 5 -> 32 [] j = 6 -> 64 [] j = 7 -> 128
             [] OTHER -> 256

\* (b >> j) & 1
BitOf(b, j) == (b \div Pow2(j)) % 2

\* (bit << j) as u8
Shl(bit, j) == (bit * Pow2(j)) % 256

\* a | b on u8
RECURSIVE OrBits(_, _, _)
OrBits(a, b, j) ==
    IF j = ByteBits THEN 0
    ELSE (IF BitOf(a, j) = 1 \/ BitOf(b, j) = 1 THEN Pow2(j) ELSE 0)
         + OrBits(a, b, j + 1)
Or8(a, b) == OrBits(a, b, 0)

\* a ^ b on u8
RECURSIVE XorBits(_, _, _)
XorBits(a, b, j) ==
    IF j = ByteBits THEN 0
    ELSE ((BitOf(a, j) + BitOf(b, j)) % 2) * Pow2(j) + XorBits(a, b, j + 1)
Xor8(a, b) == XorBits(a, b, 0)

\* [0u8; n]
Zeros(n) == [i \in 1..n |-> 0]

(***************************************************************************)
(* fn keystream(&mut self) -> u8, lines 67-113.  N is NFSR and L is LFSR   *)
(* as they are when the call starts.                                       *)
(***************************************************************************)
\* OutBit with the tap NFSR[89] read one cell too low.
OutBitLow(N, L) ==
    ( N[2+1] + N[15+1] + N[36+1] + N[45+1] + N[64+1] + N[73+1] + N[88+1]
    + L[93+1]
    + N[12+1] * L[8+1]
    + L[13+1] * L[20+1]
    + N[95+1] * L[42+1]
    + L[60+1] * L[79+1]
    + N[12+1] * N[95+1] * L[95+1] ) % 2

\* lines 69-81
OutBit(N, L) ==
    ( N[2+1] + N[15+1] + N[36+1] + N[45+1] + N[64+1] + N[73+1] + N[89+1]
    + L[93+1]
    + N[12+1] * L[8+1]
    + L[13+1] * L[20+1]
    + N[95+1] * L[42+1]
    + L[60+1] * L[79+1]
    + N[12+1] * N[95+1] * L[95+1] ) % 2

\* lines 83-95
NBit(N, L) ==
    ( L[0+1] + N[0+1] + N[26+1] + N[56+1] + N[91+1] + N[96+1]
    + N[3+1] * N[67+1]
    + N[11+1] * N[13+1]
    + N[17+1] * N[18+1]
    + N[27+1] * N[59+1]
    + N[40+1] * N[48+1]
    + N[61+1] * N[65+1]
    + N[68+1] * N[84+1] ) % 2

\* LBit complemented: a constant 1 among the terms.
LBitInv(L) ==
    ( 1 + L[0+1] + L[7+1] + L[38+1] + L[70+1] + L[81+1] + L[96+1] ) % 2

\* lines 97-102
LBit(L) ==
    ( L[0+1] + L[7+1] + L[38+1] + L[70+1] + L[81+1] + L[96+1] ) % 2

\* lines 105-111: for i in 1..keysize { R[i-1] = R[i] }; R[keysize-1] = bit.
\* Cells keysize.. of the register are left as they are.
Shift(R, ks, bit) ==
    IF ks = RegLen THEN Append(Tail(R), bit)
    ELSE SubSeq(R, 2, ks) \o <<bit>> \o SubSeq(R, ks + 1, RegLen)

\* The step panics where the source indexes outside the arrays:
\* R[i] with i >= 128 in the loop, R[keysize - 1] with keysize = 0.
StepPanics(ks) == ks < 1 \/ ks > RegLen

\* Step with the shift of lines 105-108 ahead of the tap reads.
StepShiftFirst(m, ks) ==
    LET N1 == Shift(m.NFSR, ks, m.NFSR[ks])
        L1 == Shift(m.LFSR, ks, m.LFSR[ks])
    IN  [NFSR |-> [N1 EXCEPT ![ks] = NBit(N1, L1)],
         LFSR |-> [L1 EXCEPT ![ks] = LBit(L1)],
         n    |-> m.n + 1,
         bit  |-> OutBit(N1, L1)]

\* One call of keystream() with keysize ks in 1..128 on the machine
\* m = [NFSR, LFSR, n], n counting the calls made: the registers after the
\* call, the count, and the bit returned.
Step(m, ks) ==
    [NFSR |-> Shift(m.NFSR, ks, NBit(m.NFSR, m.LFSR)),
     LFSR |-> Shift(m.LFSR, ks, LBit(m.LFSR)),
     n    |-> m.n + 1,
     bit  |-> OutBit(m.NFSR, m.LFSR)]

\* The registers a panicking call of keystream() leaves behind: untouched
\* when keysize = 0 (the loop is empty and NFSR[keysize - 1] is out of
\* bounds); when keysize > 128 the loop has moved cells 1..127 down to
\* 0..126 before NFSR[128] is read.
StepPanicRegs(m, ks) ==
    IF ks < 1 THEN [NFSR |-> m.NFSR, LFSR |-> m.LFSR]
    ELSE [NFSR |-> Append(Tail(m.NFSR), m.NFSR[RegLen]),
          LFSR |-> Append(Tail(m.LFSR), m.LFSR[RegLen])]

\* A machine as every step leaves it: both arrays keep their length.
\* Asking this of an intermediate result has it computed before the steps
\* that follow it.
Whole(m) == Len(m.NFSR) = RegLen /\ Len(m.LFSR) = RegLen

(***************************************************************************)
(* pub fn ivsetup, lines 43-64.                                            *)
(***************************************************************************)
Max(a, b) == IF a >= b THEN a ELSE b

\* LoadBit with |= in place of = on lines 46-47 and 53-54.
LoadBitOr(rg, k, v, ivb, i, j) ==
    IF i >= KeyBytes
    THEN [NFSR |-> rg.NFSR, LFSR |-> rg.LFSR, panic |-> TRUE]
    ELSE LET N1 == [rg.NFSR EXCEPT
                      ![i * 8 + j + 1] = Max(@, BitOf(k[i + 1], j))]
         IN  IF i < ivb
             THEN IF i >= Len(v)
                  THEN [NFSR |-> N1, LFSR |-> rg.LFSR, panic |-> TRUE]
                  ELSE [NFSR |-> N1,
                        LFSR |-> [rg.LFSR EXCEPT
                           ![i * 8 + j + 1] = Max(@, BitOf(v[i + 1], j))],
                        panic |-> FALSE]
             ELSE [NFSR |-> N1,
                   LFSR |-> [rg.LFSR EXCEPT ![i * 8 + j + 1] = 1],
                   panic |-> FALSE]

\* LoadBit taking the bits of key and IV bytes from the top: >> (7 - j).
LoadBitMsb(rg, k, v, ivb, i, j) ==
    IF i >= KeyBytes
    THEN [NFSR |-> rg.NFSR, LFSR |-> rg.LFSR, panic |-> TRUE]
    ELSE LET N1 == [rg.NFSR EXCEPT ![i * 8 + j + 1] = BitOf(k[i + 1], 7 - j)]
         IN  IF i < ivb
             THEN IF i >= Len(v)
                  THEN [NFSR |-> N1, LFSR |-> rg.LFSR, panic |-> TRUE]
                  ELSE [NFSR |-> N1,
                        LFSR |-> [rg.LFSR EXCEPT
                                    ![i * 8 + j + 1] = BitOf(v[i + 1], 7 - j)],
                        panic |-> FALSE]
             ELSE [NFSR |-> N1,
                   LFSR |-> [rg.LFSR EXCEPT ![i * 8 + j + 1] = 1],
                   panic |-> FALSE]

\* One pass of the body of the inner loops for byte i, bit j: lines 46-47
\* when i < ivsize / 8, lines 53-54 otherwise.  key[i] panics when i >= 16,
\* before anything is written; iv[i] panics when i >= iv.len(), after
\* NFSR[i * 8 + j] was written.
LoadBit(rg, k, v, ivb, i, j) ==
    IF i >= KeyBytes
    THEN [NFSR |-> rg.NFSR, LFSR |-> rg.LFSR, panic |-> TRUE]
    ELSE LET N1 == [rg.NFSR EXCEPT ![i * 8 + j + 1] = BitOf(k[i + 1], j)]
         IN  IF i < ivb
             THEN IF i >= Len(v)
                  THEN [NFSR |-> N1, LFSR |-> rg.LFSR, panic |-> TRUE]
                  ELSE [NFSR |-> N1,
                        LFSR |-> [rg.LFSR EXCEPT
                                    ![i * 8 + j + 1] = BitOf(v[i + 1], j)],
                        panic |-> FALSE]
             ELSE [NFSR |-> N1,
                   LFSR |-> [rg.LFSR EXCEPT ![i * 8 + j + 1] = 1],
                   panic |-> FALSE]

\* The two load loops, lines 44-56, over the bit positions lo..hi-1 in
\* order (position p is byte p / 8, bit p % 8), stopping at the first
\* panic: bytes 0..ivsize/8 - 1 take key and IV bits, bytes
\* ivsize/8..keysize/8 - 1 take key bits and the constant 1.  The range is
\* run in two halves, the first one finished before the second starts,
\* which keeps the depth of evaluation logarithmic.
RECURSIVE LoadRange(_, _, _, _, _, _)
LoadRange(rg, k, v, ivb, lo, hi) ==
    IF rg.panic \/ lo >= hi THEN rg
    ELSE IF hi = lo + 1
         THEN LoadBit(rg, k, v, ivb, lo \div ByteBits, lo % ByteBits)
         ELSE LET mid == (lo + hi) \div 2
                  h == LoadRange(rg, k, v, ivb, lo, mid)
              IN  IF h.panic THEN h
                  ELSE LoadRange(h, k, v, ivb, mid, hi)

\* Load without its second loop: the cells from ivsize on are not written.
LoadNoPad(rg, k, v, ivs, ks) ==
    LoadRange([NFSR |-> rg.NFSR, LFSR |-> rg.LFSR, panic |-> FALSE],
              k, v, ivs \div ByteBits, 0, ByteBits * (ivs \div ByteBits))

\* The first loop runs over 0..ivsize/8, the second over ivsize/8..keysize/8
\* (empty when ivsize/8 >= keysize/8).
Load(rg, k, v, ivs, ks) ==
    LoadRange([NFSR |-> rg.NFSR, LFSR |-> rg.LFSR, panic |-> FALSE],
              k, v, ivs \div ByteBits,
              0, ByteBits * Max(ivs \div ByteBits, ks \div ByteBits))

\* Clock without line 62: the output bit is fed back into LFSR only.
ClockLfsrOnly(m, ks) ==
    LET s == Step(m, ks)
    IN  [NFSR |-> s.NFSR,
         LFSR |-> [s.LFSR EXCEPT ![127+1] = (@ + s.bit) % 2],
         n    |-> s.n]

\* Clock with += in place of ^= on lines 61-62.
ClockAdd(m, ks) ==
    LET s == Step(m, ks)
    IN  [NFSR |-> [s.NFSR EXCEPT ![127+1] = @ + s.bit],
         LFSR |-> [s.LFSR EXCEPT ![127+1] = @ + s.bit],
         n    |-> s.n]

\* Clock without line 61: the output bit is fed back into NFSR only.
ClockNfsrOnly(m, ks) ==
    LET s == Step(m, ks)
    IN  [NFSR |-> [s.NFSR EXCEPT ![127+1] = (@ + s.bit) % 2],
         LFSR |-> s.LFSR,
         n    |-> s.n]

\* One initial clocking, lines 60-62: a step, then the output bit is
\* XORed into LFSR[127] and NFSR[127].
Clock(m, ks) ==
    LET s == Step(m, ks)
    IN  [NFSR |-> [s.NFSR EXCEPT ![127+1] = (@ + s.bit) % 2],
         LFSR |-> [s.LFSR EXCEPT ![127+1] = (@ + s.bit) % 2],
         n    |-> s.n]

\* for _ in 0..256 { ... }, lines 59-63: c clockings one after the other,
\* run in two halves to keep the depth of evaluation logarithmic.
RECURSIVE WarmUp(_, _, _)
WarmUp(m, ks, c) ==
    IF c = 0 THEN m
    ELSE IF c = 1 THEN Clock(m, ks)
         ELSE LET h == WarmUp(m, ks, c \div 2)
              IN  IF Whole(h) THEN WarmUp(h, ks, c - (c \div 2)) ELSE h

(***************************************************************************)
(* The byte adapter of keystream_bytes, encrypt_bytes and decrypt_bytes:   *)
(* for j in 0..8 { k |= self.keystream() << j }.                           *)
(***************************************************************************)
\* PackBits shifting by 7 - j: the first bit generated goes to the top.
RECURSIVE PackBitsMsb(_, _, _, _)
PackBitsMsb(m, ks, j, k) ==
    IF j = ByteBits THEN [NFSR |-> m.NFSR, LFSR |-> m.LFSR, n |-> m.n, k |-> k]
    ELSE LET s == Step(m, ks)
         IN  PackBitsMsb(s, ks, j + 1, Or8(k, Shl(s.bit, 7 - j)))

RECURSIVE PackBits(_, _, _, _)
PackBits(m, ks, j, k) ==
    IF j = ByteBits THEN [NFSR |-> m.NFSR, LFSR |-> m.LFSR, n |-> m.n, k |-> k]
    ELSE LET s == Step(m, ks)
         IN  PackBits(s, ks, j + 1, Or8(k, Shl(s.bit, j)))

\* lines 132-136, one pass of the outer loop of keystream_bytes:
\* keystream[i] = 0; keystream[i] |= self.keystream() << j.
KeystreamByte(st, ks) ==
    LET b == PackBits(st, ks, 0, 0)
    IN  [NFSR |-> b.NFSR, LFSR |-> b.LFSR, n |-> b.n,
         out |-> Append(st.out, b.k)]

\* EncryptByte whose inner loop starts at j = 1: seven steps for a byte.
EncryptByteShort(st, ks, p) ==
    LET b == PackBits(st, ks, 1, 0)
    IN  [NFSR |-> b.NFSR, LFSR |-> b.LFSR, n |-> b.n,
         out |-> Append(st.out, Xor8(p, b.k))]

\* lines 142-147, one pass of the loop of encrypt_bytes on plaintext byte p:
\* ciphertext[i] = plaintext[i] ^ k.
EncryptByte(st, ks, p) ==
    LET b == PackBits(st, ks, 0, 0)
    IN  [NFSR |-> b.NFSR, LFSR |-> b.LFSR, n |-> b.n,
         out |-> Append(st.out, Xor8(p, b.k))]

\* DecryptByte whose inner loop starts at j = 1: seven steps for a byte.
DecryptByteShort(st, ks, c) ==
    LET b == PackBits(st, ks, 1, 0)
    IN  [NFSR |-> b.NFSR, LFSR |-> b.LFSR, n |-> b.n,
         out |-> Append(st.out, Xor8(c, b.k))]

\* DecryptByte combining ciphertext and mask with | instead of ^.
DecryptByteOr(st, ks, c) ==
    LET b == PackBits(st, ks, 0, 0)
    IN  [NFSR |-> b.NFSR, LFSR |-> b.LFSR, n |-> b.n,
         out |-> Append(st.out, Or8(c, b.k))]

\* lines 153-158, one pass of the loop of decrypt_bytes on ciphertext byte c:
\* plaintext[i] = ciphertext[i] ^ k.
DecryptByte(st, ks, c) ==
    LET b == PackBits(st, ks, 0, 0)
    IN  [NFSR |-> b.NFSR, LFSR |-> b.LFSR, n |-> b.n,
         out |-> Append(st.out, Xor8(c, b.k))]

\* KeystreamRange throwing away one step at the start of the call.
RECURSIVE KeystreamRangeSkip(_, _, _, _)
KeystreamRangeSkip(st, ks, lo, hi) ==
    IF lo >= hi THEN st
    ELSE LET s == Step(st, ks)
             b == KeystreamByte(IF lo = 0
                                THEN [NFSR |-> s.NFSR, LFSR |-> s.LFSR,
                                      n |-> st.n, out |-> st.out]
                                ELSE st, ks)
         IN  KeystreamRangeSkip(b, ks, lo + 1, hi)

\* for i in 0..keystream.len(): the passes lo..hi-1 in order, run in two
\* halves to keep the depth of evaluation logarithmic.
RECURSIVE KeystreamRange(_, _, _, _)
KeystreamRange(st, ks, lo, hi) ==
    IF lo >= hi THEN st
    ELSE IF hi = lo + 1 THEN KeystreamByte(st, ks)
         ELSE LET mid == (lo + hi) \div 2
                  h == KeystreamRange(st, ks, lo, mid)
              IN  IF Whole(h) THEN KeystreamRange(h, ks, mid, hi) ELSE h

\* for i in 0..plaintext.len()
RECURSIVE EncryptRange(_, _, _, _, _)
EncryptRange(st, ks, plaintext, lo, hi) ==
    IF lo >= hi THEN st
    ELSE IF hi = lo + 1 THEN EncryptByte(st, ks, plaintext[lo + 1])
         ELSE LET mid == (lo + hi) \div 2
                  h == EncryptRange(st, ks, plaintext, lo, mid)
              IN  IF Whole(h) THEN EncryptRange(h, ks, plaintext, mid, hi)
                  ELSE h

\* for i in 0..ciphertext.len()
RECURSIVE DecryptRange(_, _, _, _, _)
DecryptRange(st, ks, ciphertext, lo, hi) ==
    IF lo >= hi THEN st
    ELSE IF hi = lo + 1 THEN DecryptByte(st, ks, ciphertext[lo + 1])
         ELSE LET mid == (lo + hi) \div 2
                  h == DecryptRange(st, ks, ciphertext, lo, mid)
              IN  IF Whole(h) THEN DecryptRange(h, ks, ciphertext, mid, hi)
                  ELSE h

(***************************************************************************)
(* The vectors of tests::testvectors (lines 169-180) and of                *)
(* tests::encrypt_test (lines 195-221).                                    *)
(***************************************************************************)
TvKey1 ==
    <<0, 0, 0, 0, 0, 0, 0, 0, 0, 0, 0, 0, 0, 0, 0, 0>>
TvOut1 ==
    <<240, 155, 123, 247, 215, 246, 181, 194, 222, 47, 252, 115, 172, 33,
      57, 127>>
TvIv1 ==
    <<0, 0, 0, 0, 0, 0, 0, 0, 0, 0, 0, 0>>
TvKey2 ==
    <<1, 35, 69, 103, 137, 171, 205, 239, 18, 52, 86, 120, 154, 188, 222,
      240>>
TvOut2 ==
    <<175, 181, 186, 191, 168, 222, 137, 107, 75, 156, 106, 202, 247, 196,
      251, 253>>
TvIv2 ==
    <<1, 35, 69, 103, 137, 171, 205, 239, 18, 52, 86, 120>>
EtKey1 ==
    <<217, 94, 190, 53, 98, 202, 221, 66, 152, 103, 184, 204, 124, 215,
      183, 232>>
EtOut1 ==
    <<96, 177, 120, 184, 226, 3, 223, 1, 208, 138, 209, 243, 139, 226, 92,
      130>>
EtKey2 ==
    <<131, 31, 173, 22, 166, 190, 187, 157, 48, 94, 184, 44, 104, 11, 136,
      242>>
EtOut2 ==
    <<106, 182, 83, 10, 105, 193, 135, 221, 97, 49, 241, 67, 37, 48, 38,
      12>>
EtKey3 ==
    <<81, 70, 210, 112, 212, 1, 79, 229, 58, 32, 48, 80, 207, 10, 203, 83>>
EtOut3 ==
    <<149, 81, 142, 13, 113, 186, 220, 237, 255, 102, 50, 225, 147, 102,
      219, 202>>
EtIn3 ==
    <<80, 91, 150, 137, 152, 237, 118, 5, 13, 11, 154, 200, 132, 4, 62, 13>>
EtKey4 ==
    <<255, 178, 2, 245, 103, 178, 115, 39, 195, 61, 76, 23, 149, 16, 208,
      63>>
EtOut4 ==
    <<240, 180, 198, 72, 10, 183, 174, 222, 111, 98, 59, 64, 241, 27, 249,
      131>>
EtIn4 ==
    <<79, 158, 68, 170, 116, 73, 69, 242, 101, 111, 251, 21, 159, 86, 127,
      97>>
EtKey5 ==
    <<251, 220, 146, 98, 10, 7, 78, 137, 174, 8, 179, 159, 136, 216, 156,
      12>>
EtOut5 ==
    <<17, 249, 59, 245, 123, 195, 62, 128, 168, 238, 175, 64, 36, 121, 44,
      125>>

(***************************************************************************)
(* The state.  An engine is a value of struct Grain128 held by a caller;   *)
(* the model has room for two of them.  LFSR, NFSR, key, keysize and       *)
(* ivsize are the fields of the struct (lines 5-12), one value per engine. *)
(* The other variables record what the caller has seen of each engine:     *)
(*   phase  "none" (no engine yet), "constructed" (keysetup returned),     *)
(*          "keystreaming" (ivsetup returned), "panicked" (a call on the   *)
(*          engine panicked: the caller unwinds and makes no more calls)   *)
(*   op     the last call made on the engine                               *)
(*   iv     the argument of the last ivsetup call                          *)
(*   inp    the data argument of the last byte-level call                  *)
(*   out    the bytes the last byte-level call wrote to its buffer         *)
(*   count  the bytes generated since the registers were last loaded       *)
(*   warm   the initial clockings run since the registers were last loaded *)
(*   steps  the calls of keystream() the last call made                    *)
(***************************************************************************)
VARIABLES LFSR, NFSR, key, keysize, ivsize,
          phase, op, iv, inp, out, count, warm, steps

fields == <<LFSR, NFSR, key, keysize, ivsize>>
vars == <<LFSR, NFSR, key, keysize, ivsize,
          phase, op, iv, inp, out, count, warm, steps>>

Engines == {1, 2}

\* An engine the caller holds and may call.
Live(e) == phase[e] \in {"constructed", "keystreaming"}

\* The registers of engine e, with a fresh count of steps.
Regs(e) == [NFSR |-> NFSR[e], LFSR |-> LFSR[e], n |-> 0]

\* The registers of engine e with an empty output buffer.
Start(e) == [NFSR |-> NFSR[e], LFSR |-> LFSR[e], n |-> 0, out |-> <<>>]

Init ==
    /\ LFSR = [e \in Engines |-> Zeros(RegLen)]
    /\ NFSR = [e \in Engines |-> Zeros(RegLen)]
    /\ key = [e \in Engines |-> Zeros(KeyBytes)]
    /\ keysize = [e \in Engines |-> 0]
    /\ ivsize = [e \in Engines |-> 0]
    /\ phase = [e \in Engines |-> "none"]
    /\ op = [e \in Engines |-> "none"]
    /\ iv = [e \in Engines |-> <<>>]
    /\ inp = [e \in Engines |-> <<>>]
    /\ out = [e \in Engines |-> <<>>]
    /\ count = [e \in Engines |-> 0]
    /\ warm = [e \in Engines |-> 0]
    /\ steps = [e \in Engines |-> 0]

\* A call on engine e panicked, leaving NFSR and LFSR as given.
Panic(e, name, N, L) ==
    /\ phase' = [phase EXCEPT ![e] = "panicked"]
    /\ op' = [op EXCEPT ![e] = name]
    /\ NFSR' = [NFSR EXCEPT ![e] = N]
    /\ LFSR' = [LFSR EXCEPT ![e] = L]
    /\ steps' = [steps EXCEPT ![e] = 0]

(***************************************************************************)
(* pub fn keysetup(key, keysize, ivsize) -> Self, lines 15-23.             *)
(* key.try_into().unwrap() panics unless the slice has 16 bytes; keysize   *)
(* and ivsize are stored as given.                                         *)
(***************************************************************************)
keysetup(e, k, ks, ivs) ==
    /\ phase[e] # "panicked"
    /\ IF Len(k) # KeyBytes
       THEN /\ Panic(e, "keysetup", NFSR[e], LFSR[e])
            /\ UNCHANGED <<key, keysize, ivsize, iv, inp, out, count, warm>>
       ELSE /\ key' = [key EXCEPT ![e] = k]
            /\ keysize' = [keysize EXCEPT ![e] = ks]
            /\ ivsize' = [ivsize EXCEPT ![e] = ivs]
            /\ LFSR' = [LFSR EXCEPT ![e] = Zeros(RegLen)]
            /\ NFSR' = [NFSR EXCEPT ![e] = Zeros(RegLen)]
            /\ phase' = [phase EXCEPT ![e] = "constructed"]
            /\ op' = [op EXCEPT ![e] = "keysetup"]
            /\ iv' = [iv EXCEPT ![e] = <<>>]
            /\ inp' = [inp EXCEPT ![e] = <<>>]
            /\ out' = [out EXCEPT ![e] = <<>>]
            /\ count' = [count EXCEPT ![e] = 0]
            /\ warm' = [warm EXCEPT ![e] = 0]
            /\ steps' = [steps EXCEPT ![e] = 0]

(***************************************************************************)
(* pub fn ivsetup(&mut self, iv), lines 43-64: the two load loops, then    *)
(* the 256 initial clockings.  A panic leaves the registers as far as the  *)
(* loops got.                                                              *)
(***************************************************************************)
\* The body of ivsetup on registers rg: the registers it leaves, the
\* clockings it ran, and whether it panicked.
Setup(rg, k, v, ivs, ks) ==
    LET l == Load(rg, k, v, ivs, ks)
        m == [NFSR |-> l.NFSR, LFSR |-> l.LFSR, n |-> 0]
    IN  IF l.panic
        THEN [NFSR |-> l.NFSR, LFSR |-> l.LFSR, n |-> 0, panic |-> TRUE]
        ELSE IF StepPanics(ks)
        THEN LET p == StepPanicRegs(m, ks)
             IN  [NFSR |-> p.NFSR, LFSR |-> p.LFSR, n |-> 0, panic |-> TRUE]
        ELSE LET w == WarmUp(m, ks, WarmUpClocks)
             IN  [NFSR |-> w.NFSR, LFSR |-> w.LFSR, n |-> w.n,
                  panic |-> FALSE]

ivsetup(e, v) ==
    /\ Live(e)
    /\ iv' = [iv EXCEPT ![e] = v]
    /\ inp' = [inp EXCEPT ![e] = <<>>]
    /\ out' = [out EXCEPT ![e] = <<>>]
    /\ count' = [count EXCEPT ![e] = 0]
    /\ UNCHANGED <<key, keysize, ivsize>>
    /\ \E r \in {Setup(Regs(e), key[e], v, ivsize[e], keysize[e])} :
         IF r.panic
         THEN /\ Panic(e, "ivsetup", r.NFSR, r.LFSR)
              /\ warm' = [warm EXCEPT ![e] = 0]
         ELSE /\ NFSR' = [NFSR EXCEPT ![e] = r.NFSR]
              /\ LFSR' = [LFSR EXCEPT ![e] = r.LFSR]
              /\ phase' = [phase EXCEPT ![e] = "keystreaming"]
              /\ op' = [op EXCEPT ![e] = "ivsetup"]
              /\ warm' = [warm EXCEPT ![e] = r.n]
              /\ steps' = [steps EXCEPT ![e] = r.n]

\* What the three byte-level calls leave behind: r is the machine and the
\* buffer after the loop, d the data argument.
Finish(e, name, d, r) ==
    /\ NFSR' = [NFSR EXCEPT ![e] = r.NFSR]
    /\ LFSR' = [LFSR EXCEPT ![e] = r.LFSR]
    /\ op' = [op EXCEPT ![e] = name]
    /\ inp' = [inp EXCEPT ![e] = d]
    /\ out' = [out EXCEPT ![e] = r.out]
    /\ count' = [count EXCEPT ![e] = @ + Len(r.out)]
    /\ steps' = [steps EXCEPT ![e] = r.n]
    /\ UNCHANGED <<key, keysize, ivsize, phase, iv, warm>>

\* The first call of keystream() of a byte-level call panics.
Abort(e, name) ==
    \E r \in {StepPanicRegs(Regs(e), keysize[e])} :
        /\ Panic(e, name, r.NFSR, r.LFSR)
        /\ UNCHANGED <<key, keysize, ivsize, iv, inp, out, count, warm>>

(***************************************************************************)
(* pub fn keystream_bytes(&mut self, keystream), lines 130-138, on a       *)
(* buffer of n bytes.                                                      *)
(***************************************************************************)
keystream_bytes(e, n) ==
    /\ Live(e)
    /\ IF n > 0 /\ StepPanics(keysize[e])
       THEN Abort(e, "keystream_bytes")
       ELSE \E r \in {KeystreamRange(Start(e), keysize[e], 0, n)} :
                Finish(e, "keystream_bytes", <<>>, r)

(***************************************************************************)
(* pub fn encrypt_bytes(&mut self, plaintext, ciphertext), lines 140-149,  *)
(* with a ciphertext buffer as long as the plaintext, as the tests pass.   *)
(***************************************************************************)
encrypt_bytes(e, plaintext) ==
    /\ Live(e)
    /\ IF Len(plaintext) > 0 /\ StepPanics(keysize[e])
       THEN Abort(e, "encrypt_bytes")
       ELSE \E r \in {EncryptRange(Start(e), keysize[e], plaintext,
                                    0, Len(plaintext))} :
                Finish(e, "encrypt_bytes", plaintext, r)

(***************************************************************************)
(* pub fn decrypt_bytes(&mut self, ciphertext, plaintext), lines 151-160,  *)
(* with a plaintext buffer as long as the ciphertext.                      *)
(***************************************************************************)
decrypt_bytes(e, ciphertext) ==
    /\ Live(e)
    /\ IF Len(ciphertext) > 0 /\ StepPanics(keysize[e])
       THEN Abort(e, "decrypt_bytes")
       ELSE \E r \in {DecryptRange(Start(e), keysize[e], ciphertext,
                                    0, Len(ciphertext))} :
                Finish(e, "decrypt_bytes", ciphertext, r)

(***************************************************************************)
(* Bounds and inputs.                                                      *)
(***************************************************************************)
\* The bytes an engine may generate between two loads of its registers.
MaxBytes == 2

\* Keys of 16 bytes, and of 8, 15 and 17 bytes.
Keys ==
    {TvKey2, SubSeq(TvKey2, 1, 8), SubSeq(TvKey2, 1, 15), TvKey2 \o <<17>>}
KeySizes == {64, 128, 136}
IvSizes == {96, 128}
\* IVs of 12 and 16 bytes, and of 11 and 13 bytes.
IVs == {TvIv2, Zeros(16), SubSeq(TvIv2, 1, 11), TvIv2 \o <<154>>}
\* Plaintexts and ciphertexts.
DataPool == {<<>>, <<0>>, <<165>>, <<0, 0>>, <<60, 255>>,
             <<0, 0, 0>>, <<19, 87, 206>>}
Chunks(e) == {d \in DataPool : count[e] + Len(d) <= MaxBytes}
Lens(e) == 0..(MaxBytes - count[e])

(***************************************************************************)
(* Spec: one caller holding one engine and calling the five public         *)
(* functions in any order, with well-formed and malformed arguments.       *)
(***************************************************************************)
DoKeysetup ==
    \E k \in Keys, ks \in KeySizes, ivs \in IvSizes : keysetup(1, k, ks, ivs)
DoIvsetup == \E v \in IVs : ivsetup(1, v)
DoKeystreamBytes == \E n \in Lens(1) : keystream_bytes(1, n)
DoEncryptBytes == \E d \in Chunks(1) : encrypt_bytes(1, d)
DoDecryptBytes == \E d \in Chunks(1) : decrypt_bytes(1, d)

Next ==
    \/ DoKeysetup
    \/ DoIvsetup
    \/ DoKeystreamBytes
    \/ DoEncryptBytes
    \/ DoDecryptBytes

Spec == Init /\ [][Next]_vars

(***************************************************************************)
(* SpecKAT: the two tests of the source.  Each builds an engine with       *)
(* keysize 128, runs ivsetup and makes one call on 16 bytes: testvectors   *)
(* (lines 182-190) keystream_bytes with ivsize 96 and the IV of its table, *)
(* encrypt_test (lines 223-231) encrypt_bytes with ivsize 128 and the      *)
(* all-zero IV.  The model draws key, ivsize, IV and plaintext from the    *)
(* tables of both tests.                                                   *)
(***************************************************************************)
TestKeys == {TvKey1, TvKey2, EtKey1, EtKey2, EtKey3, EtKey4, EtKey5}
TestIVs == {TvIv1, TvIv2, Zeros(TestLen)}
TestPlaintexts == {Zeros(TestLen), EtIn3, EtIn4}

KatKeysetup ==
    \E k \in TestKeys, ivs \in IvSizes :
        phase[1] = "none" /\ keysetup(1, k, 128, ivs)
KatIvsetup ==
    \E v \in TestIVs : phase[1] = "constructed" /\ ivsetup(1, v)
KatKeystreamBytes ==
    phase[1] = "keystreaming" /\ count[1] = 0 /\ keystream_bytes(1, TestLen)
KatEncryptBytes ==
    \E d \in TestPlaintexts :
        phase[1] = "keystreaming" /\ count[1] = 0 /\ encrypt_bytes(1, d)

NextKAT ==
    \/ KatKeysetup
    \/ KatIvsetup
    \/ KatKeystreamBytes
    \/ KatEncryptBytes

SpecKAT == Init /\ [][NextKAT]_vars

(***************************************************************************)
(* SpecPair: two engines, each built once with a 16-byte key and keysize   *)
(* 128, set up with an IV before its first byte (ivsetup may run more than *)
(* once), then asked for bytes.  A ciphertext an engine has produced may   *)
(* be handed to decrypt_bytes of either engine.                            *)
(***************************************************************************)
PairIVs == {TvIv2, Zeros(TestLen)}
PairChunks(e) == {d \in Chunks(e) : Len(d) > 0}
Handed(e) ==
    {d \in {out[o] : o \in {x \in Engines : op[x] = "encrypt_bytes"}} :
        Len(d) > 0 /\ count[e] + Len(d) <= MaxBytes}

PairKeysetup ==
    \E e \in Engines, ivs \in IvSizes :
        phase[e] = "none" /\ keysetup(e, TvKey2, 128, ivs)
PairIvsetup ==
    \E e \in Engines, v \in PairIVs : count[e] = 0 /\ ivsetup(e, v)
PairKeystreamBytes ==
    \E e \in Engines : \E n \in Lens(e) \ {0} :
        phase[e] = "keystreaming" /\ keystream_bytes(e, n)
PairEncryptBytes ==
    \E e \in Engines : \E d \in PairChunks(e) :
        phase[e] = "keystreaming" /\ encrypt_bytes(e, d)
PairDecryptBytes ==
    \E e \in Engines : \E d \in PairChunks(e) \cup Handed(e) :
        phase[e] = "keystreaming" /\ decrypt_bytes(e, d)

NextPair ==
    \/ PairKeysetup
    \/ PairIvsetup
    \/ PairKeystreamBytes
    \/ PairEncryptBytes
    \/ PairDecryptBytes

SpecPair == Init /\ [][NextPair]_vars

(***************************************************************************)
(* SpecStep: the calls of keystream() one at a time.  One engine is built  *)
(* once; ivsetup is followed through its positions, the end of the load    *)
(* loops (line 56, phase "loaded") and each pass of the loop of initial    *)
(* clockings (lines 60-62), and keystream_bytes through each pass of its   *)
(* inner loop (line 135), the buffer being filled in place.  While         *)
(* keystream_bytes runs, op is "keystream_bytes", steps counts its calls   *)
(* of keystream() and out is the part of the buffer written so far.        *)
(* encrypt_bytes and decrypt_bytes, which keep their byte in a local until *)
(* it is complete, are taken whole, between two bytes of keystream_bytes.  *)
(***************************************************************************)
StepKeys == {TvKey2, EtKey3}
StepKeySizes == {64, 128}
StepIVs == {TvIv2, Zeros(TestLen), SubSeq(TvIv2, 1, 11)}

\* The calls of keystream() the running keystream_bytes has made.
Made(e) == IF op[e] = "keystream_bytes" THEN steps[e] ELSE 0

\* No call is inside a byte: the caller may have the engine back.
AtRest(e) == Made(e) % ByteBits = 0

StepKeysetup ==
    \E k \in StepKeys, ks \in StepKeySizes, ivs \in IvSizes :
        phase[1] = "none" /\ keysetup(1, k, ks, ivs)

\* ivsetup up to the end of its load loops, lines 44-56.
LoadPhase(e, v) ==
    /\ phase[e] = "constructed" /\ AtRest(e)
    /\ iv' = [iv EXCEPT ![e] = v]
    /\ inp' = [inp EXCEPT ![e] = <<>>]
    /\ out' = [out EXCEPT ![e] = <<>>]
    /\ count' = [count EXCEPT ![e] = 0]
    /\ warm' = [warm EXCEPT ![e] = 0]
    /\ UNCHANGED <<key, keysize, ivsize>>
    /\ \E l \in {Load(Regs(e), key[e], v, ivsize[e], keysize[e])} :
         IF l.panic
         THEN Panic(e, "ivsetup", l.NFSR, l.LFSR)
         ELSE /\ NFSR' = [NFSR EXCEPT ![e] = l.NFSR]
              /\ LFSR' = [LFSR EXCEPT ![e] = l.LFSR]
              /\ phase' = [phase EXCEPT ![e] = "loaded"]
              /\ op' = [op EXCEPT ![e] = "ivsetup"]
              /\ steps' = [steps EXCEPT ![e] = 0]

\* One pass of the loop of lines 59-63; ivsetup returns after the last.
InitialClocking(e) ==
    /\ phase[e] = "loaded" /\ warm[e] < WarmUpClocks
    /\ \E r \in {Clock(Regs(e), keysize[e])} :
         /\ NFSR' = [NFSR EXCEPT ![e] = r.NFSR]
         /\ LFSR' = [LFSR EXCEPT ![e] = r.LFSR]
    /\ warm' = [warm EXCEPT ![e] = @ + 1]
    /\ steps' = [steps EXCEPT ![e] = @ + 1]
    /\ phase' = [phase EXCEPT ![e] = IF warm[e] + 1 = WarmUpClocks
                                     THEN "keystreaming" ELSE "loaded"]
    /\ UNCHANGED <<key, keysize, ivsize, op, iv, inp, out, count>>

\* One pass of the inner loop of keystream_bytes, line 135, with line 132
\* before it when j = 0: keystream[i] |= self.keystream() << j.
KeystreamBit(e) ==
    /\ Live(e) /\ (AtRest(e) => count[e] < MaxBytes)
    /\ \E s \in {Step(Regs(e), keysize[e])} :
         /\ NFSR' = [NFSR EXCEPT ![e] = s.NFSR]
         /\ LFSR' = [LFSR EXCEPT ![e] = s.LFSR]
         /\ out' = [out EXCEPT ![e] =
                IF Made(e) % ByteBits = 0
                THEN Append(IF Made(e) = 0 THEN <<>> ELSE @,
                            Or8(0, Shl(s.bit, 0)))
                ELSE [@ EXCEPT ![Len(@)] =
                          Or8(@, Shl(s.bit, Made(e) % ByteBits))]]
    /\ op' = [op EXCEPT ![e] = "keystream_bytes"]
    /\ steps' = [steps EXCEPT ![e] = Made(e) + 1]
    /\ inp' = [inp EXCEPT ![e] = <<>>]
    /\ count' = [count EXCEPT ![e] =
                    IF Made(e) % ByteBits = 0 THEN @ + 1 ELSE @]
    /\ UNCHANGED <<key, keysize, ivsize, phase, iv, warm>>

StepLoadPhase == \E v \in StepIVs : LoadPhase(1, v)
StepInitialClocking == InitialClocking(1)
StepKeystreamBit == KeystreamBit(1)
StepEncryptBytes ==
    \E d \in Chunks(1) : AtRest(1) /\ encrypt_bytes(1, d)
StepDecryptBytes ==
    \E d \in Chunks(1) : AtRest(1) /\ decrypt_bytes(1, d)

NextStep ==
    \/ StepKeysetup
    \/ StepLoadPhase
    \/ StepInitialClocking
    \/ StepKeystreamBit
    \/ StepEncryptBytes
    \/ StepDecryptBytes

SpecStep == Init /\ [][NextStep]_vars

(***************************************************************************)
(* SpecReinit: engine 1 is set up with a first IV, generates bytes, and is *)
(* then set up again by ivsetup, any number of times, each time after it   *)
(* has generated bytes; engine 2 is constructed and set up once.  Both are *)
(* built with the same key and keysize 128.                                *)
(***************************************************************************)
\* IVs of 16 bytes, enough for ivsize 96 and for ivsize 128.
FirstIV == EtIn3
ReinitIVs == {EtIn3, Zeros(TestLen)}

ReKeysetup ==
    \E e \in Engines, ivs \in IvSizes :
        phase[e] = "none" /\ keysetup(e, TvKey2, 128, ivs)
ReFirstIvsetup ==
    phase[1] = "constructed" /\ ivsetup(1, FirstIV)
ReFreshIvsetup ==
    \E v \in ReinitIVs : phase[2] = "constructed" /\ ivsetup(2, v)
ReIvsetup ==
    \E v \in ReinitIVs :
        phase[1] = "keystreaming" /\ count[1] > 0 /\ ivsetup(1, v)
ReKeystreamBytes ==
    \E e \in Engines : \E n \in Lens(e) \ {0} :
        phase[e] = "keystreaming" /\ keystream_bytes(e, n)
ReEncryptBytes ==
    \E e \in Engines : \E d \in PairChunks(e) :
        phase[e] = "keystreaming" /\ encrypt_bytes(e, d)

NextReinit ==
    \/ ReKeysetup
    \/ ReFirstIvsetup
    \/ ReFreshIvsetup
    \/ ReIvsetup
    \/ ReKeystreamBytes
    \/ ReEncryptBytes

SpecReinit == Init /\ [][NextReinit]_vars

(***************************************************************************)
(* SpecSplit: two engines built with the same key and keysize 128 and set  *)
(* up once.  Engine 1 is asked for its bytes in several calls, the         *)
(* plaintext going to encrypt_bytes in consecutive chunks; engine 2 is     *)
(* asked once, for the keystream or for the plaintext from its start.      *)
(***************************************************************************)
Plaintext == <<60, 255, 19, 87>>

SplitKeysetup ==
    \E e \in Engines, ivs \in IvSizes :
        phase[e] = "none" /\ keysetup(e, TvKey2, 128, ivs)
SplitIvsetup ==
    \E e \in Engines, v \in PairIVs :
        phase[e] = "constructed" /\ ivsetup(e, v)
SplitKeystreamBytes ==
    \E n \in Lens(1) \ {0} :
        phase[1] = "keystreaming" /\ keystream_bytes(1, n)
SplitEncryptBytes ==
    \E n \in Lens(1) \ {0} :
        /\ phase[1] = "keystreaming"
        /\ encrypt_bytes(1, SubSeq(Plaintext, count[1] + 1, count[1] + n))
WholeKeystreamBytes ==
    \E n \in 1..MaxBytes :
        phase[2] = "keystreaming" /\ count[2] = 0 /\ keystream_bytes(2, n)
WholeEncryptBytes ==
    \E n \in 1..MaxBytes :
        /\ phase[2] = "keystreaming" /\ count[2] = 0
        /\ encrypt_bytes(2, SubSeq(Plaintext, 1, n))

NextSplit ==
    \/ SplitKeysetup
    \/ SplitIvsetup
    \/ SplitKeystreamBytes
    \/ SplitEncryptBytes
    \/ WholeKeystreamBytes
    \/ WholeEncryptBytes

SpecSplit == Init /\ [][NextSplit]_vars

(***************************************************************************)
(* Properties.                                                             *)
(***************************************************************************)
ByteCalls == {"keystream_bytes", "encrypt_bytes", "decrypt_bytes"}

\* Engines a and b were built and set up with the same arguments.
SameSetup(a, b) ==
    /\ phase[a] = "keystreaming" /\ phase[b] = "keystreaming"
    /\ key[a] = key[b] /\ keysize[a] = keysize[b]
    /\ ivsize[a] = ivsize[b] /\ iv[a] = iv[b]

SameRegs(a, b) == NFSR[a] = NFSR[b] /\ LFSR[a] = LFSR[b]

\* The last call on engine e was a byte-level call and the first to
\* generate bytes since ivsetup.
FirstCall(e) == op[e] \in ByteCalls /\ count[e] = Len(out[e])

\* The keystream bytes the last byte-level call on engine e generated.
Mask(e) ==
    IF op[e] = "keystream_bytes" THEN out[e]
    ELSE [i \in 1..Len(out[e]) |-> Xor8(inp[e][i], out[e][i])]

\* The engine of SpecKAT ran one of the tests up to its call on 16 bytes.
TestRun(call, ivs) ==
    /\ phase[1] = "keystreaming" /\ keysize[1] = 128 /\ ivsize[1] = ivs
    /\ op[1] = call /\ count[1] = TestLen /\ Len(out[1]) = TestLen

\* C1: with keysize 128 and ivsize 96, keysetup, ivsetup and
\* keystream_bytes on 16 bytes give f09b7bf7... for the all-zero key and IV
\* and afb5babf... for key 01234567...f0 and IV 0123456789abcdef12345678.
C1_TestVectors ==
    TestRun("keystream_bytes", 96) =>
        /\ (key[1] = TvKey1 /\ iv[1] = TvIv1 => out[1] = TvOut1)
        /\ (key[1] = TvKey2 /\ iv[1] = TvIv2 => out[1] = TvOut2)

C1_Witness ==
    /\ TestRun("keystream_bytes", 96)
    /\ key[1] = TvKey2 /\ iv[1] = TvIv2 /\ out[1] = TvOut2

\* The table of tests::encrypt_test: key, plaintext, expected ciphertext.
EncryptTests ==
    {<<EtKey1, Zeros(TestLen), EtOut1>>, <<EtKey2, Zeros(TestLen), EtOut2>>,
     <<EtKey3, EtIn3, EtOut3>>, <<EtKey4, EtIn4, EtOut4>>,
     <<EtKey5, Zeros(TestLen), EtOut5>>}

\* C2: with keysize 128, ivsize 128 and the all-zero 16-byte IV, keysetup,
\* ivsetup and encrypt_bytes on a 16-byte plaintext give the expected
\* ciphertext for every (key, plaintext) pair of the encrypt test.
C2_EncryptTest ==
    TestRun("encrypt_bytes", 128) /\ iv[1] = Zeros(TestLen) =>
        \A t \in EncryptTests :
            key[1] = t[1] /\ inp[1] = t[2] => out[1] = t[3]

C2_Witness ==
    /\ TestRun("encrypt_bytes", 128) /\ iv[1] = Zeros(TestLen)
    /\ key[1] = EtKey3 /\ inp[1] = EtIn3 /\ out[1] = EtOut3

\* C3: when two engines are set up with the same key and IV and neither
\* has produced output before, decrypt_bytes on one of what encrypt_bytes
\* on the other returned for p gives back p.
C3_Symmetry ==
    \A a, b \in Engines :
        (/\ SameSetup(a, b)
         /\ op[a] = "encrypt_bytes" /\ FirstCall(a)
         /\ op[b] = "decrypt_bytes" /\ FirstCall(b)
         /\ inp[b] = out[a])
        => out[b] = inp[a]

C3_Witness ==
    \E a, b \in Engines :
        /\ SameSetup(a, b)
        /\ op[a] = "encrypt_bytes" /\ FirstCall(a)
        /\ op[b] = "decrypt_bytes" /\ FirstCall(b)
        /\ inp[b] = out[a]
        /\ inp[a] = <<60, 255>> /\ out[a] # inp[a] /\ out[b] = <<60, 255>>

\* C4: two engines built and set up with the same key and IV are in equal
\* register states whenever they have generated the same number of bytes,
\* and calls that end there and ask for the same number of bytes have
\* generated the same keystream bytes.
C4_Determinism ==
    \A a, b \in Engines :
        SameSetup(a, b) /\ keysize[a] = 128 /\ count[a] = count[b] =>
            /\ SameRegs(a, b)
            /\ (op[a] \in ByteCalls /\ op[b] \in ByteCalls
                /\ Len(out[a]) = Len(out[b]) => Mask(a) = Mask(b))

C4_Witness ==
    \E a, b \in Engines :
        /\ a # b /\ SameSetup(a, b) /\ keysize[a] = 128 /\ ivsize[a] = 96
        /\ count[a] = 2 /\ count[b] = 2
        /\ op[a] = "keystream_bytes" /\ Len(out[a]) = 2
        /\ op[b] = "keystream_bytes" /\ Len(out[b]) = 1
        /\ SameRegs(a, b) /\ NFSR[a] # Zeros(RegLen)

\* C5: encrypt_bytes on n zero bytes returns the bytes keystream_bytes(n)
\* returns on an engine set up with the same key and IV that has generated
\* as many bytes before, and both leave their engines in the same state.
C5_KeystreamEncrypt ==
    \A a, b \in Engines :
        (/\ SameSetup(a, b) /\ count[a] = count[b]
         /\ op[a] = "encrypt_bytes" /\ inp[a] = Zeros(Len(inp[a]))
         /\ op[b] = "keystream_bytes" /\ Len(out[b]) = Len(inp[a]))
        => out[a] = out[b] /\ SameRegs(a, b)

C5_Witness ==
    \E a, b \in Engines :
        /\ SameSetup(a, b) /\ count[a] = 2 /\ count[b] = 2
        /\ op[a] = "encrypt_bytes" /\ inp[a] = <<0, 0>>
        /\ op[b] = "keystream_bytes" /\ Len(out[b]) = 2
        /\ out[a] = out[b] /\ out[a] # <<0, 0>>

\* C6: every byte handed to a caller was generated after the 256 initial
\* clockings of the loaded registers: only bits generated after the
\* warm-up has completed are observable.
C6_WarmUpIsolation ==
    \A e \in Engines :
        keysize[e] = 128 /\ out[e] # <<>> => warm[e] = WarmUpClocks

\* C7: keystream_bytes, encrypt_bytes and decrypt_bytes fail on an engine
\* that ivsetup has not set up: no byte is generated in the constructed
\* state.
C7_NotInitialized ==
    \A e \in Engines :
        keysize[e] = 128 /\ phase[e] = "constructed" => count[e] = 0

\* C8: keysetup fails whenever the key's byte length does not match
\* keysize / 8: no engine exists in which key.len() * 8 # keysize.
C8_InvalidKeyLength ==
    \A e \in Engines : Live(e) => Len(key[e]) * 8 = keysize[e]

\* C9: keysetup fails whenever keysize # 128, so no step is ever executed
\* on an engine whose keysize differs from 128.
C9_UnsupportedConfiguration ==
    \A e \in Engines : steps[e] > 0 => keysize[e] = 128

\* C10: ivsetup fails whenever the IV's byte length does not match
\* ivsize / 8, shorter or longer.
C10_InvalidIVLength ==
    \A e \in Engines :
        (/\ keysize[e] = 128 /\ op[e] = "ivsetup"
         /\ Len(iv[e]) # ivsize[e] \div 8)
        => phase[e] = "panicked"

\* C11: keysetup and ivsetup validate before any state mutation: when one
\* of them refuses its input (keysize 128), no cell of NFSR or LFSR differs
\* from its value before the call.
C11_ValidateBeforeMutation ==
    [][\A e \in Engines :
          (/\ keysize'[e] = 128
           /\ phase[e] # "panicked" /\ phase'[e] = "panicked"
           /\ op'[e] \in {"keysetup", "ivsetup"})
          => NFSR'[e] = NFSR[e] /\ LFSR'[e] = LFSR[e]]_vars

\* C12: in every reachable state, whatever the bytes of key, IV and data
\* and whatever the calls made, NFSR and LFSR have 128 cells each and every
\* cell holds 0 or 1.
C12_CellsAreBits ==
    \A e \in Engines :
        /\ Len(NFSR[e]) = RegLen /\ Len(LFSR[e]) = RegLen
        /\ \A i \in 1..RegLen : NFSR[e][i] \in {0, 1} /\ LFSR[e][i] \in {0, 1}

C12_Witness ==
    /\ phase[1] = "keystreaming" /\ keysize[1] = 128
    /\ op[1] = "decrypt_bytes" /\ inp[1] = <<60, 255>> /\ count[1] = 2
    /\ \E i, j \in 1..RegLen : NFSR[1][i] = 1 /\ LFSR[1][j] = 1

\* The tap formulas in the notation of the source: cells counted from 0,
\* ^ and & on bits.
Cell(R, i) == R[i + 1]
Xor(a, b) == IF a = b THEN 0 ELSE 1
And(a, b) == IF a = 1 /\ b = 1 THEN 1 ELSE 0

TapOutBit(N, L) ==
    Xor(Xor(Xor(Xor(Xor(Xor(Xor(Xor(Xor(Xor(Xor(Xor(
        Cell(N, 2), Cell(N, 15)), Cell(N, 36)), Cell(N, 45)), Cell(N, 64)),
        Cell(N, 73)), Cell(N, 89)), Cell(L, 93)),
        And(Cell(N, 12), Cell(L, 8))),
        And(Cell(L, 13), Cell(L, 20))),
        And(Cell(N, 95), Cell(L, 42))),
        And(Cell(L, 60), Cell(L, 79))),
        And(And(Cell(N, 12), Cell(N, 95)), Cell(L, 95)))

TapNBit(N, L) ==
    Xor(Xor(Xor(Xor(Xor(Xor(Xor(Xor(Xor(Xor(Xor(Xor(
        Cell(L, 0), Cell(N, 0)), Cell(N, 26)), Cell(N, 56)), Cell(N, 91)),
        Cell(N, 96)),
        And(Cell(N, 3), Cell(N, 67))),
        And(Cell(N, 11), Cell(N, 13))),
        And(Cell(N, 17), Cell(N, 18))),
        And(Cell(N, 27), Cell(N, 59))),
        And(Cell(N, 40), Cell(N, 48))),
        And(Cell(N, 61), Cell(N, 65))),
        And(Cell(N, 68), Cell(N, 84)))

TapLBit(L) ==
    Xor(Xor(Xor(Xor(Xor(
        Cell(L, 0), Cell(L, 7)), Cell(L, 38)), Cell(L, 70)), Cell(L, 81)),
        Cell(L, 96))

\* Engine e made a call of keystream() from keystream_bytes in this step
\* of SpecStep, the j-th of its byte.
BitStep(e, j) ==
    /\ op'[e] = "keystream_bytes" /\ steps'[e] = Made(e) + 1
    /\ j = Made(e) % ByteBits

\* Cell i of each register of engine e now holds what cell i + 1 held,
\* for the cells i of 0..126.
Shifted(e) ==
    \A i \in 0..(RegLen - 2) :
        /\ Cell(NFSR'[e], i) = Cell(NFSR[e], i + 1)
        /\ Cell(LFSR'[e], i) = Cell(LFSR[e], i + 1)

\* C13: with keysize 128, each call of keystream() returns outbit, leaves
\* in cell i of each register what cell i + 1 held (i in 0..126), n_bit
\* in NFSR[127] and l_bit in LFSR[127], the three bits being the tap
\* formulas on the registers as they were before the shift.
C13_StepFunction ==
    [][\A e \in Engines : \A j \in 0..(ByteBits - 1) :
          keysize[e] = 128 /\ BitStep(e, j) =>
              /\ BitOf(out'[e][Len(out'[e])], j) = TapOutBit(NFSR[e], LFSR[e])
              /\ Shifted(e)
              /\ Cell(NFSR'[e], 127) = TapNBit(NFSR[e], LFSR[e])
              /\ Cell(LFSR'[e], 127) = TapLBit(LFSR[e])]_vars

\* A call of keystream() that returned 1 and wrote 1 to NFSR[127] and to
\* LFSR[127] of registers that are not all alike.
C13_Witness ==
    /\ keysize[1] = 128 /\ phase[1] = "keystreaming"
    /\ op[1] = "keystream_bytes" /\ steps[1] = 11
    /\ BitOf(out[1][2], 2) = 1
    /\ Cell(NFSR[1], 127) = 1 /\ Cell(LFSR[1], 127) = 1
    /\ \E i, k \in 0..126 : Cell(NFSR[1], i) = 0 /\ Cell(LFSR[1], k) = 0

\* The cells the passes of the two load loops write, in order, in each
\* register: i * 8 + j for i in 0..ivsize/8 then ivsize/8..keysize/8 and
\* j in 0..8.
LoadWrites(ivs, ks) ==
    [p \in 1..(ByteBits * Max(ivs \div ByteBits, ks \div ByteBits)) |->
        ((p - 1) \div ByteBits) * 8 + ((p - 1) % ByteBits)]

\* Engine e is inside ivsetup, its load loops over and no step made yet.
LoadEnded(e) == phase[e] = "loaded" /\ warm[e] = 0

\* C14: with keysize 128 and ivsize 96 or 128, at the end of the load
\* loops of ivsetup and before its first step, NFSR[8i+j] is bit j of key
\* byte i (i in 0..15), LFSR[8i+j] is bit j of IV byte i for i < ivsize/8
\* and 1 for ivsize/8 <= i < 16, and every cell of both registers has been
\* written exactly once.
C14_LoadPhase ==
    \A e \in Engines :
        LoadEnded(e) /\ keysize[e] = 128 /\ ivsize[e] \in {96, 128} =>
            /\ \A i \in 0..15 : \A j \in 0..7 :
                 /\ Cell(NFSR[e], 8 * i + j)
                        = (key[e][i + 1] \div (2 ^ j)) % 2
                 /\ Cell(LFSR[e], 8 * i + j)
                        = IF i < ivsize[e] \div 8
                          THEN (iv[e][i + 1] \div (2 ^ j)) % 2
                          ELSE 1
            /\ \A c \in 0..(RegLen - 1) :
                 Cardinality({p \in DOMAIN LoadWrites(ivsize[e], keysize[e]) :
                                 LoadWrites(ivsize[e], keysize[e])[p] = c}) = 1

C14_Witness ==
    /\ LoadEnded(1) /\ keysize[1] = 128 /\ ivsize[1] = 96
    /\ key[1] = TvKey2 /\ iv[1] = TvIv2
    /\ Cell(NFSR[1], 0) = 1 /\ Cell(NFSR[1], 1) = 0 /\ Cell(NFSR[1], 127) = 1
    /\ Cell(LFSR[1], 0) = 1 /\ Cell(LFSR[1], 95) = 0 /\ Cell(LFSR[1], 96) = 1

\* What ivsetup as a whole makes of the registers of a constructed engine.
WholeSetup(e) ==
    Setup([NFSR |-> Zeros(RegLen), LFSR |-> Zeros(RegLen), n |-> 0],
          key[e], iv[e], ivsize[e], keysize[e])

\* C15: after its load loops ivsetup calls keystream() exactly 256 times,
\* and after each call XORs the bit it returned into NFSR[127] and
\* LFSR[127], on top of what the step left there (n_bit and l_bit when
\* keysize is 128); no bit reaches the caller meanwhile, and the first bit
\* a caller receives after ivsetup is the output of the step that follows
\* the 256, the 257th since the load.
C15_InitialClockings ==
    [][\A e \in Engines :
          /\ warm'[e] = warm[e] + 1 =>
                /\ warm[e] < WarmUpClocks /\ out'[e] = <<>>
                /\ Shifted(e) \/ keysize[e] # 128
                /\ Cell(NFSR'[e], 127) =
                      Xor(IF keysize[e] = 128 THEN TapNBit(NFSR[e], LFSR[e])
                          ELSE Cell(NFSR[e], 127),
                          TapOutBit(NFSR[e], LFSR[e]))
                /\ Cell(LFSR'[e], 127) =
                      Xor(IF keysize[e] = 128 THEN TapLBit(LFSR[e])
                          ELSE Cell(LFSR[e], 127),
                          TapOutBit(NFSR[e], LFSR[e]))
          /\ phase[e] = "loaded" /\ phase'[e] = "keystreaming" =>
                /\ warm'[e] = WarmUpClocks /\ steps'[e] = WarmUpClocks
                /\ WholeSetup(e).n = WarmUpClocks
                /\ NFSR'[e] = WholeSetup(e).NFSR
                /\ LFSR'[e] = WholeSetup(e).LFSR
          /\ phase[e] = "keystreaming" /\ count[e] = 0 /\ BitStep(e, 0) =>
                /\ warm[e] = WarmUpClocks
                /\ BitOf(out'[e][1], 0) = TapOutBit(NFSR[e], LFSR[e])]_vars

\* ivsetup has returned and the caller has received the first bit, a 1.
C15_Witness ==
    /\ phase[1] = "keystreaming" /\ keysize[1] = 128 /\ ivsize[1] = 96
    /\ warm[1] = WarmUpClocks
    /\ op[1] = "keystream_bytes" /\ steps[1] = 1 /\ out[1] = <<1>>

\* Bit k of byte b, by division.
BitAt(b, k) == (b \div (2 ^ k)) % 2

\* The registers of engine e when its running keystream_bytes was called,
\* if that is the first call to generate bytes since the engine was
\* constructed or set up.
CallStart(e) ==
    IF phase[e] = "keystreaming"
    THEN [NFSR |-> WholeSetup(e).NFSR, LFSR |-> WholeSetup(e).LFSR,
          n |-> 0, out |-> <<>>]
    ELSE [NFSR |-> Zeros(RegLen), LFSR |-> Zeros(RegLen),
          n |-> 0, out |-> <<>>]

\* C16: keystream_bytes on a buffer of n bytes calls keystream() 8n times
\* and bit k of byte i of the buffer is the bit the (8i+k)-th of those
\* calls returned, the other bits of the buffer being left alone by that
\* call; encrypt_bytes and decrypt_bytes make 8 calls per input byte and
\* XOR the input with the bytes keystream_bytes builds from the same
\* registers.
C16_BytePacking ==
    [][\A e \in Engines :
          /\ \A j \in 0..(ByteBits - 1) : BitStep(e, j) =>
                LET i == Made(e) \div ByteBits
                    b == out'[e][i + 1]
                IN  /\ Len(out'[e]) = i + 1
                    /\ BitAt(b, j) = TapOutBit(NFSR[e], LFSR[e])
                    /\ \A k \in (j + 1)..7 : BitAt(b, k) = 0
                    /\ \A k \in 0..(j - 1) : BitAt(b, k) = BitAt(out[e][i + 1], k)
                    /\ \A h \in 1..i : out'[e][h] = out[e][h]
          /\ (/\ op'[e] = "keystream_bytes" /\ steps'[e] # steps[e]
              /\ steps'[e] % ByteBits = 0 /\ count'[e] = Len(out'[e])) =>
                LET n == Len(out'[e])
                    r == KeystreamRange(CallStart(e), keysize[e], 0, n)
                IN  /\ steps'[e] = 8 * n /\ r.n = 8 * n
                    /\ r.out = out'[e]
                    /\ r.NFSR = NFSR'[e] /\ r.LFSR = LFSR'[e]
          /\ op'[e] \in {"encrypt_bytes", "decrypt_bytes"} =>
                LET n == Len(inp'[e])
                    r == KeystreamRange(Start(e), keysize[e], 0, n)
                IN  /\ steps'[e] = 8 * n /\ Len(out'[e]) = n
                    /\ \A h \in 1..n : \A k \in 0..7 :
                         BitAt(out'[e][h], k)
                             = Xor(BitAt(inp'[e][h], k), BitAt(r.out[h], k))
                    /\ r.NFSR = NFSR'[e] /\ r.LFSR = LFSR'[e]]_vars

\* keystream_bytes has filled two bytes bit by bit: the first two bytes of
\* the second test vector.
C16_Witness ==
    /\ phase[1] = "keystreaming" /\ keysize[1] = 128 /\ ivsize[1] = 96
    /\ key[1] = TvKey2 /\ iv[1] = TvIv2
    /\ op[1] = "keystream_bytes" /\ steps[1] = 16 /\ count[1] = 2
    /\ out[1] = SubSeq(TvOut2, 1, 2)

\* C17: from the same engine state and the same input bytes,
\* decrypt_bytes and encrypt_bytes write the same output bytes and leave
\* the same registers: whenever one of them returns, the other, applied to
\* the engine as it was before the call, gives what it gave.
C17_DecryptIsEncrypt ==
    [][\A e \in Engines :
          /\ op'[e] = "encrypt_bytes" /\ phase'[e] # "panicked" =>
                LET r == DecryptRange(Start(e), keysize[e], inp'[e],
                                      0, Len(inp'[e]))
                IN  /\ out'[e] = r.out /\ steps'[e] = r.n
                    /\ NFSR'[e] = r.NFSR /\ LFSR'[e] = r.LFSR
          /\ op'[e] = "decrypt_bytes" /\ phase'[e] # "panicked" =>
                LET r == EncryptRange(Start(e), keysize[e], inp'[e],
                                      0, Len(inp'[e]))
                IN  /\ out'[e] = r.out /\ steps'[e] = r.n
                    /\ NFSR'[e] = r.NFSR /\ LFSR'[e] = r.LFSR]_vars

C17_Witness ==
    /\ phase[1] = "keystreaming" /\ keysize[1] = 128
    /\ op[1] = "decrypt_bytes" /\ inp[1] = <<165>> /\ count[1] = 2
    /\ out[1] # <<165>>

\* C18: with keysize 128 and ivsize 96 or 128, ivsetup with IV v on an
\* engine that was set up before and has generated bytes leaves it in the
\* register state of a freshly constructed engine with the same key after
\* ivsetup(v), and the same keystream bytes follow.  Engine 1 of
\* SpecReinit is that engine, engine 2 the fresh one.
C18_Reinit ==
    (/\ SameSetup(1, 2) /\ keysize[1] = 128 /\ ivsize[1] \in {96, 128}
     /\ count[1] = count[2])
    => /\ SameRegs(1, 2)
       /\ (FirstCall(1) /\ FirstCall(2) /\ Len(out[1]) = Len(out[2])
           => Mask(1) = Mask(2))

\* Engine 1 carries an IV that only a second ivsetup can have given it.
C18_Witness ==
    /\ SameSetup(1, 2) /\ keysize[1] = 128 /\ ivsize[1] = 96
    /\ iv[1] = Zeros(TestLen) /\ iv[1] # FirstIV
    /\ FirstCall(1) /\ FirstCall(2) /\ count[1] = 2 /\ count[2] = 2
    /\ op[1] = "keystream_bytes" /\ op[2] = "encrypt_bytes"
    /\ Mask(1) = Mask(2) /\ out[1] # <<0, 0>>

\* The bytes engine 2 got in its one call at the places of the stream the
\* last call on engine 1 covered.
SamePlaces ==
    SubSeq(out[2], count[1] - Len(out[1]) + 1, count[1])

\* C19: what keystream_bytes returns in consecutive calls on one engine
\* is, call after call, what one keystream_bytes call for all the bytes
\* returns on an engine set up alike, and encrypt_bytes on consecutive
\* chunks of a plaintext returns chunk after chunk the ciphertext of
\* encrypt_bytes on the whole plaintext: no step output is skipped or
\* used twice between calls.
C19_Continuity ==
    (/\ SameSetup(1, 2) /\ op[1] \in ByteCalls /\ FirstCall(2)
     /\ count[1] <= count[2])
    => /\ op[1] = "keystream_bytes" /\ op[2] = "keystream_bytes"
          => out[1] = SamePlaces
       /\ op[1] = "encrypt_bytes" /\ op[2] = "encrypt_bytes"
          => out[1] = SamePlaces
       /\ Mask(1) = SubSeq(Mask(2), count[1] - Len(out[1]) + 1, count[1])

\* Engine 1 has encrypted the second chunk of the plaintext, engine 2 both
\* bytes at once.
C19_Witness ==
    /\ SameSetup(1, 2) /\ ivsize[1] = 96
    /\ op[1] = "encrypt_bytes" /\ count[1] = 2 /\ inp[1] = <<255>>
    /\ op[2] = "encrypt_bytes" /\ FirstCall(2) /\ inp[2] = <<60, 255>>
    /\ out[1] = <<out[2][2]>> /\ out[1] # inp[1]

\* C20: on an engine built by keysetup that never went through ivsetup
\* both registers are all-zero and stay so under any number of steps, the
\* all-zero state being a fixed point of the step with output bit 0: for
\* every key, keystream_bytes returns zero bytes only and encrypt_bytes
\* (and decrypt_bytes) returns its input unchanged.
C20_ZeroFixedPoint ==
    \A e \in Engines :
        phase[e] = "constructed" =>
            /\ NFSR[e] = Zeros(RegLen) /\ LFSR[e] = Zeros(RegLen)
            /\ TapOutBit(NFSR[e], LFSR[e]) = 0
            /\ TapNBit(NFSR[e], LFSR[e]) = 0 /\ TapLBit(LFSR[e]) = 0
            /\ op[e] = "keystream_bytes" =>
                  \A i \in 1..Len(out[e]) : out[e][i] = 0
            /\ op[e] \in {"encrypt_bytes", "decrypt_bytes"} =>
                  out[e] = inp[e]

\* Eleven steps on a constructed engine, after encrypt_bytes on one byte.
C20_Witness ==
    /\ phase[1] = "constructed" /\ key[1] = EtKey3 /\ keysize[1] = 128
    /\ op[1] = "keystream_bytes" /\ steps[1] = 3 /\ count[1] = 2
    /\ out[1] = <<0>> /\ NFSR[1] = Zeros(RegLen)

====
